---- MODULE Spec2Model ----
(***************************************************************************)
(* Model of the adaptive bitrate decision engine of src/main/src/main.rs:  *)
(* struct AdaptiveBitrateStreamer, its constructor, its three mutating     *)
(* operations and its five queries.                                        *)
(*                                                                         *)
(* Conventions.                                                            *)
(*  - A Duration is a number of microseconds; an Instant is the value of   *)
(*    the clock `now`, in microseconds since the streamer was built.       *)
(*    Calls take no time; time passes between calls (Tick).                *)
(*  - u32 is modelled with U32Bits bits: `as u32` saturates at U32_MAX as  *)
(*    Rust's float-to-integer casts do, and the ladders and the downloads  *)
(*    are inputs whose bitrates and throughputs fit that width.            *)
(*  - f64 values are exact rationals [n, d] in lowest terms and the cast   *)
(*    `as u32` truncates them; the rounding of f64 operations is not       *)
(*    modelled (where the exact value is a whole number the f64 result     *)
(*    can truncate to one less).  safety_factor, the f32 nearest to 0.8,   *)
(*    is 8/10: after truncation the two agree for every bandwidth below    *)
(*    2^24.  exp() is a table of e^(-k/10) in units of 1/10000.            *)
(*  - A QualityLevel is modelled by the one field the engine reads, its    *)
(*    bitrate.                                                             *)
(*  - `last` observes the last call: what it found and what it returned.   *)
(***************************************************************************)
EXTENDS Integers, Sequences, FiniteSets, TLC

(* ------------------------------ bounds --------------------------------- *)

\* Width of the model's u32.
U32Bits == 12

\* Spec: number of record_segment_download calls and of clock steps.
MaxRecords == 3

MaxTicks == 1

\* SpecEst: number of record_segment_download calls and of clock steps.
EstMaxRecords == 5

EstMaxTicks == 2

\* SpecBuf: number of record_segment_download calls.
BufMaxRecords == 2

\* SpecWin: number of record_segment_download calls and of clock steps.
WinMaxRecords == 4

WinMaxTicks == 3

\* SpecHist: number of record_segment_download calls.
HistMaxRecords == 51

\* SpecMono: number of record_segment_download calls.
MonoMaxRecords == 3

\* SpecQuery: number of record_segment_download calls and of clock steps.
QueryMaxRecords == 2

QueryMaxTicks == 3

(* --------------------------- arithmetic -------------------------------- *)

U32_MAX == 2^U32Bits - 1

Min(a, b) == IF a <= b THEN a ELSE b

Max(a, b) == IF a >= b THEN a ELSE b

Abs(a) == IF a < 0 THEN -a ELSE a

\* i32::signum
signum(a) == IF a > 0 THEN 1 ELSE IF a < 0 THEN -1 ELSE 0

RECURSIVE GCD(_, _)
GCD(a, b) == IF b = 0 THEN a ELSE GCD(b, a % b)

\* A non-negative f64 as an exact rational in lowest terms.
Rat(n, d) == LET g == GCD(n, d) IN [n |-> n \div g, d |-> d \div g]

\* a + b; a sum with zero is the other term as it stands.
RatAdd(a, b) ==
    IF a.n = 0 THEN b
    ELSE IF b.n = 0 THEN a
    ELSE LET g == GCD(a.d, b.d)
             l == (a.d \div g) * b.d
         IN  Rat(a.n * (l \div a.d) + b.n * (l \div b.d), l)

RatMul(a, b) ==
    LET x == Rat(a.n, b.d)
        y == Rat(b.n, a.d)
    IN  [n |-> x.n * y.n, d |-> x.d * y.d]

\* a / b, b > 0
RatDiv(a, b) == RatMul(a, [n |-> b.d, d |-> b.n])

RatLt(a, b) == a.n * b.d < b.n * a.d

\* `x as u32` of a non-negative f64: truncation, saturating at u32::MAX.
AsU32(r) == Min(r.n \div r.d, U32_MAX)

\* Duration::from_secs
from_secs(s) == s * 1000000

\* Duration::as_millis
as_millis(d) == d \div 1000

\* Duration::as_secs_f64
as_secs_f64(d) == Rat(d, 1000000)

(* ------------------- configuration set by new() ------------------------ *)

target_level == from_secs(30)

max_level == from_secs(60)

min_level == from_secs(5)

bandwidth_window == from_secs(10)

\* 0.8f32
safety_factor == Rat(8, 10)

buffer_panic_threshold == from_secs(3)

buffer_seek_threshold == from_secs(45)

min_bandwidth_samples == 3

\* The literal 50 of record_segment_download.
SegmentHistoryCap == 50

(* ------------------------------ inputs --------------------------------- *)

Level(b) == [bitrate |-> b]

\* The four-level ladder, in the proportions of create_test_quality_levels.
TestLadder == << Level(400), Level(800), Level(2000), Level(4000) >>

\* The ladders a streamer is built with: the four-level ladder, a single
\* level, and an odd number of levels that are not in ascending order.
Ladders ==
    { TestLadder,
      << Level(800) >>,
      << Level(2000), Level(400), Level(800) >> }

Segment(size, download, duration) ==
    [segment_size |-> size, download_duration |-> download,
     segment_duration |-> duration]

\* Spec: completed downloads, a slow one (96 bytes in 3 s, 32 B/s) and a
\* fast one (512 B/s).
Segments ==
    { Segment(96, from_secs(3), from_secs(15)),
      Segment(512, from_secs(1), from_secs(30)) }

\* Spec: played-back durations reported by the playback clock.
Consumptions == { from_secs(30) }

\* SpecEst: downloads at 32, 256 and 512 B/s, and one that took no
\* measurable time.
EstSegments ==
    { Segment(96, from_secs(3), from_secs(15)),
      Segment(256, from_secs(1), from_secs(15)),
      Segment(512, from_secs(1), from_secs(15)),
      Segment(600, 0, from_secs(15)) }

\* SpecBuf: one download rate, and segment durations that with playback in
\* steps of one second put the buffer at every whole second of 0 .. 60 s.
BufSegments ==
    { Segment(512, from_secs(1), from_secs(d)) : d \in {3, 30, 46} }

\* SpecBuf: played-back durations.
BufConsumptions == { from_secs(1) }

\* SpecWin: a slow download (32 B/s), one that took no time at all and one
\* that took less than a millisecond.
WinSegments ==
    { Segment(96, from_secs(3), from_secs(15)),
      Segment(600, 0, from_secs(15)),
      Segment(600, 999, from_secs(15)) }

\* SpecMono: one download, of a segment a third of max_level long, and
\* playback in steps of one second.
MonoSegments == { Segment(512, from_secs(1), from_secs(20)) }

MonoConsumptions == { from_secs(1) }

\* SpecQuery: one download, and played-back durations.
QuerySegments == { Segment(96, from_secs(3), from_secs(15)) }

QueryConsumptions == { from_secs(30) }

\* SpecHist: the one download that is recorded over and over.
HistSegments == { Segment(96, from_secs(3), from_secs(30)) }

\* Time that passes between two calls.
TickStep == from_secs(5)

(* ------------------------------ state ---------------------------------- *)

VARIABLES
    quality_levels,     \* Vec<QualityLevel>, indexed from 1 here
    current_quality,    \* usize, an index counted from 0 as in the code
    bandwidth_history,  \* VecDeque<(Instant, u32)>
    buffer_state,       \* BufferState
    segment_history,    \* VecDeque<SegmentInfo>
    now,                \* the clock that Instant::now() reads
    last                \* the last call and what it computed and returned

vars == << quality_levels, current_quality, bandwidth_history, buffer_state,
           segment_history, now, last >>

\* What a call leaves in `last`: its name, the quality index and the buffer
\* level it found, the Duration it was given to move the buffer by, and, for
\* the calls that compute them, the intermediate values and the result.
Call(op, duration) ==
    [op |-> op, old_quality |-> current_quality,
     old_level |-> buffer_state.current_level, duration |-> duration,
     estimated_bandwidth |-> 0, buffer_factor |-> Rat(0, 1),
     effective_bandwidth |-> 0, target_quality |-> 0, ret |-> 0]

(* ----------------------------- new() ----------------------------------- *)

\* Mutant: the middle index rounded down from the last index.
initial_quality_mut(levels) == (Len(levels) - 1) \div 2

initial_quality(levels) == Len(levels) \div 2

Init ==
    /\ quality_levels \in Ladders
    /\ current_quality = initial_quality(quality_levels)
    /\ bandwidth_history = << >>
    /\ buffer_state = [current_level |-> from_secs(0),
                       target_level |-> target_level,
                       max_level |-> max_level,
                       min_level |-> min_level]
    /\ segment_history = << >>
    /\ now = 0
    /\ last = [op |-> "new", old_quality |-> 0, old_level |-> 0,
               duration |-> 0, estimated_bandwidth |-> 0,
               buffer_factor |-> Rat(0, 1), effective_bandwidth |-> 0,
               target_quality |-> 0, ret |-> 0]

(* ------------------------ bandwidth estimator --------------------------- *)

\* The throughput sample of a (timestamp, bytes_per_second) pair.
Timestamp(sample) == sample[1]

Bandwidth(sample) == sample[2]

\* 10000 * e^(-k/10), k = 0 .. 40, rounded.
ExpTable ==
    << 10000, 9048, 8187, 7408, 6703, 6065, 5488, 4966,
       4493, 4066, 3679, 3329, 3012, 2725, 2466, 2231,
       2019, 1827, 1653, 1496, 1353, 1225, 1108, 1003,
       907, 821, 743, 672, 608, 550, 498, 450,
       408, 369, 334, 302, 273, 247, 224, 202,
       183 >>

\* f64::exp of -(age / bandwidth_window), in units of 1/10000; the
\* quotient is taken in tenths.
exp_neg(age, window) == ExpTable[(age * 10) \div window + 1]

RECURSIVE sum_reciprocals(_)
sum_reciprocals(history) ==
    IF history = << >> THEN Rat(0, 1)
    ELSE RatAdd(Rat(1, Max(Bandwidth(Head(history)), 1)),
                sum_reciprocals(Tail(history)))

calculate_harmonic_mean_bandwidth ==
    AsU32(RatDiv(Rat(Len(bandwidth_history), 1),
                 sum_reciprocals(bandwidth_history)))

RECURSIVE weighted_sum(_)
weighted_sum(history) ==
    IF history = << >> THEN 0
    ELSE Bandwidth(Head(history))
             * exp_neg(now - Timestamp(Head(history)), bandwidth_window)
         + weighted_sum(Tail(history))

RECURSIVE weight_sum(_)
weight_sum(history) ==
    IF history = << >> THEN 0
    ELSE exp_neg(now - Timestamp(Head(history)), bandwidth_window)
         + weight_sum(Tail(history))

calculate_weighted_average_bandwidth ==
    IF weight_sum(bandwidth_history) > 0
    THEN AsU32(Rat(weighted_sum(bandwidth_history),
                   weight_sum(bandwidth_history)))
    ELSE 0

\* Insertion of x into an ascending sequence.
RECURSIVE insert_sorted(_, _)
insert_sorted(x, s) ==
    IF s = << >> THEN << x >>
    ELSE IF x <= Head(s) THEN << x >> \o s
    ELSE << Head(s) >> \o insert_sorted(x, Tail(s))

\* sort_unstable of the bandwidths of a history
RECURSIVE sorted_bandwidths(_)
sorted_bandwidths(history) ==
    IF history = << >> THEN << >>
    ELSE insert_sorted(Bandwidth(Head(history)),
                       sorted_bandwidths(Tail(history)))

calculate_percentile_bandwidth(percentile) ==
    LET bandwidths == sorted_bandwidths(bandwidth_history)
        index == AsU32(RatMul(Rat(Len(bandwidths), 1), percentile))
    IN  IF bandwidths = << >> THEN 0
        ELSE bandwidths[Min(index, Len(bandwidths) - 1) + 1]

\* Mutant: the fallback is the bitrate in bits, not bytes, per second.
estimate_bandwidth_bits ==
    IF Len(bandwidth_history) < min_bandwidth_samples
    THEN quality_levels[current_quality + 1].bitrate
    ELSE Min(Min(calculate_harmonic_mean_bandwidth,
                 calculate_weighted_average_bandwidth),
             calculate_percentile_bandwidth(Rat(2, 10)))

\* Mutant: the percentile estimate is combined with max, not min.
estimate_bandwidth_max ==
    IF Len(bandwidth_history) < min_bandwidth_samples
    THEN quality_levels[current_quality + 1].bitrate \div 8
    ELSE Max(Min(calculate_harmonic_mean_bandwidth,
                 calculate_weighted_average_bandwidth),
             calculate_percentile_bandwidth(Rat(2, 10)))

estimate_bandwidth ==
    IF Len(bandwidth_history) < min_bandwidth_samples
    THEN quality_levels[current_quality + 1].bitrate \div 8
    ELSE LET harmonic_mean == calculate_harmonic_mean_bandwidth
             weighted_average == calculate_weighted_average_bandwidth
             percentile_estimate == calculate_percentile_bandwidth(Rat(2, 10))
         IN  Min(Min(harmonic_mean, weighted_average), percentile_estimate)

(* --------------------------- buffer factor ------------------------------ *)

\* Mutant: the seek threshold itself already counts as a surplus.
calculate_buffer_factor_seek_at ==
    LET current_buffer == as_secs_f64(buffer_state.current_level)
        target_buffer == as_secs_f64(buffer_state.target_level)
        panic_threshold == as_secs_f64(buffer_panic_threshold)
        seek_threshold == as_secs_f64(buffer_seek_threshold)
    IN  IF RatLt(current_buffer, panic_threshold) THEN Rat(3, 10)
        ELSE IF RatLt(current_buffer, target_buffer)
        THEN RatAdd(Rat(6, 10),
                    RatMul(Rat(3, 10), RatDiv(current_buffer, target_buffer)))
        ELSE IF ~RatLt(current_buffer, seek_threshold) THEN Rat(15, 10)
        ELSE Rat(1, 1)

\* Mutant: below target_level the factor rises three times as fast.
calculate_buffer_factor_steep(state) ==
    LET current_buffer == as_secs_f64(state.current_level)
        target_buffer == as_secs_f64(state.target_level)
        panic_threshold == as_secs_f64(buffer_panic_threshold)
        seek_threshold == as_secs_f64(buffer_seek_threshold)
    IN  IF RatLt(current_buffer, panic_threshold) THEN Rat(3, 10)
        ELSE IF RatLt(current_buffer, target_buffer)
        THEN RatAdd(Rat(3, 10),
                    RatMul(Rat(9, 10), RatDiv(current_buffer, target_buffer)))
        ELSE IF RatLt(seek_threshold, current_buffer) THEN Rat(15, 10)
        ELSE Rat(1, 1)

\* calculate_buffer_factor as a function of the BufferState it reads.
calculate_buffer_factor_of(state) ==
    LET current_buffer == as_secs_f64(state.current_level)
        target_buffer == as_secs_f64(state.target_level)
        panic_threshold == as_secs_f64(buffer_panic_threshold)
        seek_threshold == as_secs_f64(buffer_seek_threshold)
    IN  IF RatLt(current_buffer, panic_threshold) THEN Rat(3, 10)
        ELSE IF RatLt(current_buffer, target_buffer)
        THEN RatAdd(Rat(6, 10),
                    RatMul(Rat(3, 10), RatDiv(current_buffer, target_buffer)))
        ELSE IF RatLt(seek_threshold, current_buffer) THEN Rat(15, 10)
        ELSE Rat(1, 1)

calculate_buffer_factor == calculate_buffer_factor_of(buffer_state)

(* -------------------------- quality selector ---------------------------- *)

\* The reversed scan of find_suitable_quality from index i downwards.
RECURSIVE scan_rev(_, _)
scan_rev(i, safe_bandwidth) ==
    IF i < 0 THEN 0
    ELSE IF quality_levels[i + 1].bitrate \div 8 <= safe_bandwidth THEN i
    ELSE scan_rev(i - 1, safe_bandwidth)

\* Mutant: the ladder is scanned upwards, so the lowest level that fits wins.
RECURSIVE scan_fwd(_, _)
scan_fwd(i, safe_bandwidth) ==
    IF i > Len(quality_levels) - 1 THEN 0
    ELSE IF quality_levels[i + 1].bitrate \div 8 <= safe_bandwidth THEN i
    ELSE scan_fwd(i + 1, safe_bandwidth)

find_suitable_quality_lowest(available_bandwidth) ==
    scan_fwd(0, AsU32(RatMul(Rat(available_bandwidth, 1), safety_factor)))

find_suitable_quality(available_bandwidth) ==
    LET safe_bandwidth ==
            AsU32(RatMul(Rat(available_bandwidth, 1), safety_factor))
    IN  scan_rev(Len(quality_levels) - 1, safe_bandwidth)

\* Mutant: the result is not clamped into the ladder.
apply_quality_smoothing_unclamped(target_quality) ==
    LET current == current_quality
        diff == target_quality - current
        max_change ==
            IF buffer_state.current_level < buffer_panic_threshold
            THEN IF diff < 0 THEN diff ELSE 1
            ELSE signum(diff) * Min(1, Abs(diff))
    IN  current + max_change

\* Mutant: outside panic mode the step is the whole difference.
apply_quality_smoothing_unlimited(target_quality) ==
    LET current == current_quality
        diff == target_quality - current
        max_change ==
            IF buffer_state.current_level < buffer_panic_threshold
            THEN IF diff < 0 THEN diff ELSE 1
            ELSE diff
    IN  Min(Max(current + max_change, 0), Len(quality_levels) - 1)

\* Mutant: panic mode limits a downgrade to one level like any other step.
apply_quality_smoothing_no_panic(target_quality) ==
    LET current == current_quality
        diff == target_quality - current
        max_change == signum(diff) * Min(1, Abs(diff))
    IN  Min(Max(current + max_change, 0), Len(quality_levels) - 1)

apply_quality_smoothing(target_quality) ==
    LET current == current_quality
        target == target_quality
        diff == target - current
        max_change ==
            IF buffer_state.current_level < buffer_panic_threshold
            THEN IF diff < 0 THEN diff ELSE 1
            ELSE signum(diff) * Min(1, Abs(diff))
    IN  Min(Max(current + max_change, 0), Len(quality_levels) - 1)

(* ------------------------------ operations ------------------------------ *)

\* Mutant: a sample exactly bandwidth_window old is evicted as well.
RECURSIVE cleanup_bandwidth_history_at_window(_, _)
cleanup_bandwidth_history_at_window(history, at) ==
    IF history # << >> /\ at - Timestamp(Head(history)) >= bandwidth_window
    THEN cleanup_bandwidth_history_at_window(Tail(history), at)
    ELSE history

RECURSIVE cleanup_bandwidth_history(_, _)
cleanup_bandwidth_history(history, at) ==
    IF history # << >> /\ at - Timestamp(Head(history)) > bandwidth_window
    THEN cleanup_bandwidth_history(Tail(history), at)
    ELSE history

\* Mutant: a download that took no measurable time counts as no throughput.
sample_bandwidth_none(segment_size, download_duration) ==
    IF as_millis(download_duration) > 0
    THEN AsU32(RatDiv(Rat(segment_size, 1), as_secs_f64(download_duration)))
    ELSE 0

\* The throughput sample record_segment_download computes.
sample_bandwidth(segment_size, download_duration) ==
    IF as_millis(download_duration) > 0
    THEN AsU32(RatDiv(Rat(segment_size, 1), as_secs_f64(download_duration)))
    ELSE U32_MAX

\* Mutant: the buffer level is not clamped to max_level.
buffer_after_arrival_unclamped(segment_duration) ==
    [buffer_state EXCEPT
         !.current_level = buffer_state.current_level + segment_duration]

\* The buffer after the segment's duration is added to it.
buffer_after_arrival(segment_duration) ==
    LET level == buffer_state.current_level + segment_duration
    IN  [buffer_state EXCEPT !.current_level =
             IF level > buffer_state.max_level
             THEN buffer_state.max_level ELSE level]

\* Mutant: the oldest record is dropped already when the history is full.
record_segment_download_early_pop(segment_size, download_duration, segment_duration) ==
    LET bandwidth == sample_bandwidth(segment_size, download_duration)
        pushed == Append(bandwidth_history, << now, bandwidth >>)
        segment_info == [quality_level |-> current_quality,
                         size_bytes |-> segment_size,
                         duration |-> segment_duration,
                         download_time |-> download_duration]
        segments == Append(segment_history, segment_info)
    IN  /\ bandwidth_history' = cleanup_bandwidth_history(pushed, now)
        /\ segment_history' =
               IF Len(segments) >= SegmentHistoryCap THEN Tail(segments)
               ELSE segments
        /\ buffer_state' = buffer_after_arrival(segment_duration)
        /\ last' = Call("record_segment_download", segment_duration)
        /\ UNCHANGED << quality_levels, current_quality, now >>

record_segment_download(segment_size, download_duration, segment_duration) ==
    LET bandwidth == sample_bandwidth(segment_size, download_duration)
        pushed == Append(bandwidth_history, << now, bandwidth >>)
        segment_info == [quality_level |-> current_quality,
                         size_bytes |-> segment_size,
                         duration |-> segment_duration,
                         download_time |-> download_duration]
        segments == Append(segment_history, segment_info)
    IN  /\ bandwidth_history' = cleanup_bandwidth_history(pushed, now)
        /\ segment_history' =
               IF Len(segments) > SegmentHistoryCap THEN Tail(segments)
               ELSE segments
        /\ buffer_state' = buffer_after_arrival(segment_duration)
        /\ last' = Call("record_segment_download", segment_duration)
        /\ UNCHANGED << quality_levels, current_quality, now >>

update_buffer_consumption(consumed_duration) ==
    /\ buffer_state' =
           [buffer_state EXCEPT !.current_level =
                IF buffer_state.current_level >= consumed_duration
                THEN buffer_state.current_level - consumed_duration
                ELSE from_secs(0)]
    /\ last' = Call("update_buffer_consumption", consumed_duration)
    /\ UNCHANGED << quality_levels, current_quality, bandwidth_history,
                    segment_history, now >>

\* Mutant: the decision first evicts the samples that have left the window.
get_next_quality_evicting ==
    LET estimated_bandwidth == estimate_bandwidth
        buffer_factor == calculate_buffer_factor
        effective_bandwidth ==
            AsU32(RatMul(Rat(estimated_bandwidth, 1), buffer_factor))
        target_quality == find_suitable_quality(effective_bandwidth)
        next_quality == apply_quality_smoothing(target_quality)
    IN  /\ current_quality' = next_quality
        /\ bandwidth_history' =
               cleanup_bandwidth_history(bandwidth_history, now)
        /\ last' = [Call("get_next_quality", 0) EXCEPT
                        !.estimated_bandwidth = estimated_bandwidth,
                        !.buffer_factor = buffer_factor,
                        !.effective_bandwidth = effective_bandwidth,
                        !.target_quality = target_quality,
                        !.ret = next_quality]
        /\ UNCHANGED << quality_levels, buffer_state, segment_history, now >>

get_next_quality ==
    LET estimated_bandwidth == estimate_bandwidth
        buffer_factor == calculate_buffer_factor
        effective_bandwidth ==
            AsU32(RatMul(Rat(estimated_bandwidth, 1), buffer_factor))
        target_quality == find_suitable_quality(effective_bandwidth)
        next_quality == apply_quality_smoothing(target_quality)
    IN  /\ current_quality' = next_quality
        /\ last' = [Call("get_next_quality", 0) EXCEPT
                        !.estimated_bandwidth = estimated_bandwidth,
                        !.buffer_factor = buffer_factor,
                        !.effective_bandwidth = effective_bandwidth,
                        !.target_quality = target_quality,
                        !.ret = next_quality]
        /\ UNCHANGED << quality_levels, bandwidth_history, buffer_state,
                        segment_history, now >>

\* Mutant: the query first evicts the samples that have left the window.
get_estimated_bandwidth_evicting ==
    /\ bandwidth_history' = cleanup_bandwidth_history(bandwidth_history, now)
    /\ last' = [Call("get_estimated_bandwidth", 0) EXCEPT
                    !.estimated_bandwidth = estimate_bandwidth,
                    !.ret = estimate_bandwidth]
    /\ UNCHANGED << quality_levels, current_quality, buffer_state,
                    segment_history, now >>

get_estimated_bandwidth ==
    /\ last' = [Call("get_estimated_bandwidth", 0) EXCEPT
                    !.estimated_bandwidth = estimate_bandwidth,
                    !.ret = estimate_bandwidth]
    /\ UNCHANGED << quality_levels, current_quality, bandwidth_history,
                    buffer_state, segment_history, now >>

get_current_quality ==
    /\ last' = [Call("get_current_quality", 0) EXCEPT
                    !.ret = quality_levels[current_quality + 1]]
    /\ UNCHANGED << quality_levels, current_quality, bandwidth_history,
                    buffer_state, segment_history, now >>

get_buffer_state ==
    /\ last' = [Call("get_buffer_state", 0) EXCEPT !.ret = buffer_state]
    /\ UNCHANGED << quality_levels, current_quality, bandwidth_history,
                    buffer_state, segment_history, now >>

is_buffer_healthy ==
    /\ last' = [Call("is_buffer_healthy", 0) EXCEPT
                    !.ret = (buffer_state.current_level
                                 >= buffer_state.min_level)]
    /\ UNCHANGED << quality_levels, current_quality, bandwidth_history,
                    buffer_state, segment_history, now >>

should_pause_playback ==
    /\ last' = [Call("should_pause_playback", 0) EXCEPT
                    !.ret = (buffer_state.current_level < from_secs(1))]
    /\ UNCHANGED << quality_levels, current_quality, bandwidth_history,
                    buffer_state, segment_history, now >>

\* Time passes between two calls: Instant::now() is monotonic.
Tick ==
    /\ now' = now + TickStep
    /\ last' = Call("tick", 0)
    /\ UNCHANGED << quality_levels, current_quality, bandwidth_history,
                    buffer_state, segment_history >>

(* ---------------------------- specifications ---------------------------- *)

\* The playback-control loop: any interleaving of the calls.
Next ==
    \/ \E s \in Segments :
           /\ Len(segment_history) < MaxRecords
           /\ record_segment_download(s.segment_size, s.download_duration,
                                      s.segment_duration)
    \/ \E c \in Consumptions : update_buffer_consumption(c)
    \/ get_next_quality
    \/ get_estimated_bandwidth
    \/ now < MaxTicks * TickStep /\ Tick

Spec == Init /\ [][Next]_vars

\* The estimator alone: downloads recorded at the initial quality of the
\* four-level ladder, the clock, and the bandwidth query.
InitEst == Init /\ quality_levels = TestLadder

NextEst ==
    \/ \E s \in EstSegments :
           /\ Len(segment_history) < EstMaxRecords
           /\ record_segment_download(s.segment_size, s.download_duration,
                                      s.segment_duration)
    \/ get_estimated_bandwidth
    \/ now < EstMaxTicks * TickStep /\ Tick

SpecEst == InitEst /\ [][NextEst]_vars

\* The buffer tracker and the selector it scales: downloads at one rate
\* with many segment durations, playback, and the quality decision.
InitBuf == Init /\ quality_levels = TestLadder

NextBuf ==
    \/ \E s \in BufSegments :
           /\ Len(segment_history) < BufMaxRecords
           /\ record_segment_download(s.segment_size, s.download_duration,
                                      s.segment_duration)
    \/ \E c \in BufConsumptions : update_buffer_consumption(c)
    \/ get_next_quality

SpecBuf == InitBuf /\ [][NextBuf]_vars

\* The sample window: downloads spread over more than bandwidth_window
\* and the bandwidth query.
InitWin == Init /\ quality_levels = TestLadder

NextWin ==
    \/ \E s \in WinSegments :
           /\ Len(segment_history) < WinMaxRecords
           /\ record_segment_download(s.segment_size, s.download_duration,
                                      s.segment_duration)
    \/ get_estimated_bandwidth
    \/ now < WinMaxTicks * TickStep /\ Tick

SpecWin == InitWin /\ [][NextWin]_vars

\* The buffer level swept over its whole range under each bandwidth
\* estimate: downloads that fill the buffer, playback that drains it second
\* by second, and the quality decision.
InitMono == Init /\ quality_levels = TestLadder

NextMono ==
    \/ \E s \in MonoSegments :
           /\ Len(segment_history) < MonoMaxRecords
           /\ record_segment_download(s.segment_size, s.download_duration,
                                      s.segment_duration)
    \/ \E c \in MonoConsumptions : update_buffer_consumption(c)
    \/ get_next_quality

SpecMono == InitMono /\ [][NextMono]_vars

\* The queries: the five read operations between downloads, playback,
\* quality decisions and the passing of time.
InitQuery == Init /\ quality_levels = TestLadder

NextQuery ==
    \/ \E s \in QuerySegments :
           /\ Len(segment_history) < QueryMaxRecords
           /\ record_segment_download(s.segment_size, s.download_duration,
                                      s.segment_duration)
    \/ \E c \in QueryConsumptions : update_buffer_consumption(c)
    \/ get_next_quality
    \/ get_current_quality
    \/ get_buffer_state
    \/ get_estimated_bandwidth
    \/ is_buffer_healthy
    \/ should_pause_playback
    \/ now < QueryMaxTicks * TickStep /\ Tick

SpecQuery == InitQuery /\ [][NextQuery]_vars

\* The segment history: one download recorded more often than the history
\* holds records, with quality decisions in between. The clock stands
\* still, so no sample leaves the bandwidth history, whose length is the
\* number of record_segment_download calls so far.
InitHist == Init /\ quality_levels = TestLadder

NextHist ==
    \/ \E s \in HistSegments :
           /\ Len(bandwidth_history) < HistMaxRecords
           /\ record_segment_download(s.segment_size, s.download_duration,
                                      s.segment_duration)
    \/ get_next_quality

SpecHist == InitHist /\ [][NextHist]_vars

(* ------------------------------- claims --------------------------------- *)

IsNextQuality == last.op = "get_next_quality"

InPanic == buffer_state.current_level < buffer_panic_threshold

LastIndex == Len(quality_levels) - 1

\* C1: for every non-empty ladder and after any sequence of calls, the
\* current quality index is a valid index into the ladder, and every value
\* get_next_quality returns lies in 0 .. ladder_length - 1.
C1_QualityIndexValid ==
    /\ Len(quality_levels) >= 1
    /\ current_quality \in 0 .. LastIndex
    /\ IsNextQuality => last.ret \in 0 .. LastIndex

\* C1 witness: a decision taken at the top of the ladder in panic mode with
\* a target not below it, where the step of +1 is clamped back.
C1_Witness ==
    /\ IsNextQuality
    /\ InPanic
    /\ last.old_quality = LastIndex
    /\ last.target_quality >= last.old_quality
    /\ last.ret = LastIndex

\* C2: after any sequence of arrivals and consumptions the buffer level is
\* within 0 .. max_level; an arrival adds the segment duration and clamps to
\* max_level, a consumption subtracts and clamps to zero.
C2_BufferBounded ==
    /\ buffer_state.current_level >= 0
    /\ buffer_state.current_level <= buffer_state.max_level
    /\ last.op = "record_segment_download" =>
           buffer_state.current_level =
               Min(last.old_level + last.duration, buffer_state.max_level)
    /\ last.op = "update_buffer_consumption" =>
           buffer_state.current_level = Max(last.old_level - last.duration, 0)

\* C2 witness: an arrival into a buffer that is not empty and that the
\* segment would overfill; the level is clamped to max_level.
C2_Witness ==
    /\ last.op = "record_segment_download"
    /\ last.old_level > 0
    /\ last.old_level + last.duration > buffer_state.max_level
    /\ buffer_state.current_level = buffer_state.max_level

\* C3: a get_next_quality call changes the index by at most one level,
\* except for a downgrade taken with the buffer below the panic threshold.
C3_StepAtMostOne ==
    IsNextQuality =>
        \/ Abs(last.ret - last.old_quality) <= 1
        \/ InPanic /\ last.ret < last.old_quality

\* C3 witness: three or more samples, all slow, the buffer at or above the
\* panic threshold, a target two or more levels down, and a step of one.
C3_Witness ==
    /\ IsNextQuality
    /\ ~InPanic
    /\ Len(bandwidth_history) >= min_bandwidth_samples
    /\ \A i \in 1 .. Len(bandwidth_history) :
           Bandwidth(bandwidth_history[i]) = 32
    /\ last.target_quality <= last.old_quality - 2
    /\ last.ret = last.old_quality - 1

\* C4: below the panic threshold a target lower than the current index is
\* returned as it is, and an upward move is never more than +1.
C4_PanicJump ==
    IsNextQuality /\ InPanic =>
        /\ last.target_quality < last.old_quality =>
               last.ret = last.target_quality
        /\ last.ret <= last.old_quality + 1

\* C4 witness: a panic-mode decision that jumps two or more levels down.
C4_Witness ==
    /\ IsNextQuality
    /\ InPanic
    /\ last.target_quality <= last.old_quality - 2
    /\ last.ret = last.target_quality

\* The fallback estimate at quality index q: its bitrate in bytes per second.
Fallback(q) == quality_levels[q + 1].bitrate \div 8

\* C5: with fewer than min_bandwidth_samples samples in the history the
\* bandwidth estimate is the bitrate of the current quality level divided by
\* 8, whatever the samples recorded so far.
C5_FallbackEstimate ==
    /\ last.op \in {"get_next_quality", "get_estimated_bandwidth"}
    /\ Len(bandwidth_history) < min_bandwidth_samples
    => last.estimated_bandwidth = Fallback(last.old_quality)

\* C5 witness: the estimate queried with two samples in the history, none
\* of them equal to the fallback, at a quality other than the initial one.
C5_Witness ==
    /\ last.op = "get_estimated_bandwidth"
    /\ Len(bandwidth_history) = min_bandwidth_samples - 1
    /\ \A i \in 1 .. Len(bandwidth_history) :
           Bandwidth(bandwidth_history[i]) # Fallback(current_quality)
    /\ current_quality # initial_quality(quality_levels)
    /\ last.ret = Fallback(current_quality)

\* C6, as claimed: with fewer than min_bandwidth_samples samples
\* get_next_quality returns the index that was current before the call.
C6_SustainsQuality ==
    IsNextQuality /\ Len(bandwidth_history) < min_bandwidth_samples
    => last.ret = last.old_quality

\* The indices whose required bandwidth is at most 0.8 x available.
Affordable(available) ==
    { i \in 0 .. LastIndex :
          (quality_levels[i + 1].bitrate \div 8) * 10 <= available * 8 }

\* C7: the target index is the highest index whose required bandwidth
\* (bitrate / 8) is at most available bandwidth x 0.8, and index 0 if no
\* level qualifies.
C7_HighestAffordable ==
    IsNextQuality =>
        LET fits == Affordable(last.effective_bandwidth)
        IN  /\ fits = {} => last.target_quality = 0
            /\ fits # {} =>
                   /\ last.target_quality \in fits
                   /\ \A i \in fits : i <= last.target_quality

\* C7 witness: a decision for which no level of the ladder qualifies.
C7_Witness ==
    /\ IsNextQuality
    /\ Affordable(last.effective_bandwidth) = {}
    /\ last.target_quality = 0

\* C8: the buffer factor is 0.3 below the panic threshold, 0.6 + 0.3 x
\* (current / target_level) from the panic threshold up to but excluding
\* target_level, 1.0 from target_level up to and including the seek
\* threshold, and 1.5 above the seek threshold.
C8_BufferFactor ==
    IsNextQuality =>
        LET current == buffer_state.current_level
            factor == last.buffer_factor
        IN  /\ current < buffer_panic_threshold => factor = Rat(3, 10)
            /\ current = 0 => factor = Rat(3, 10)
            /\ buffer_panic_threshold <= current /\ current < target_level =>
                   factor = Rat(6 * target_level + 3 * current,
                                10 * target_level)
            /\ target_level <= current /\ current <= buffer_seek_threshold =>
                   factor = Rat(1, 1)
            /\ current > buffer_seek_threshold => factor = Rat(3, 2)

\* C8 witness: a decision taken with the buffer exactly at the seek
\* threshold, where the factor is still 1.0.
C8_Witness ==
    /\ IsNextQuality
    /\ buffer_state.current_level = buffer_seek_threshold
    /\ last.buffer_factor = Rat(1, 1)

\* The samples of the history, and how many lie below or at a value.
SampleValues ==
    { Bandwidth(bandwidth_history[i]) : i \in 1 .. Len(bandwidth_history) }

CountBelow(p) ==
    Cardinality({ i \in 1 .. Len(bandwidth_history) :
                      Bandwidth(bandwidth_history[i]) < p })

CountUpTo(p) ==
    Cardinality({ i \in 1 .. Len(bandwidth_history) :
                      Bandwidth(bandwidth_history[i]) <= p })

\* C9: with at least min_bandwidth_samples samples the estimate is the
\* minimum of the harmonic mean n / sum(1 / max(sample, 1)), the weighted
\* average weighted_sum / weight_sum (both truncated) and the sample at
\* index floor(n x 0.2), clamped to n - 1, of the samples in ascending order.
C9_EstimateIsMinimum ==
    /\ last.op = "get_estimated_bandwidth"
    /\ Len(bandwidth_history) >= min_bandwidth_samples
    => LET n == Len(bandwidth_history)
           hm == calculate_harmonic_mean_bandwidth
           wa == calculate_weighted_average_bandwidth
           pc == calculate_percentile_bandwidth(Rat(2, 10))
           recip == sum_reciprocals(bandwidth_history)
           k == Min((n * 2) \div 10, n - 1)
       IN  /\ last.ret <= hm /\ last.ret <= wa /\ last.ret <= pc
           /\ last.ret \in {hm, wa, pc}
           /\ hm * recip.n <= n * recip.d
           /\ hm = U32_MAX \/ (hm + 1) * recip.n > n * recip.d
           /\ wa * weight_sum(bandwidth_history)
                  <= weighted_sum(bandwidth_history)
           /\ (wa + 1) * weight_sum(bandwidth_history)
                  > weighted_sum(bandwidth_history)
           /\ pc \in SampleValues
           /\ CountBelow(pc) <= k /\ k < CountUpTo(pc)

\* C9 witness: an estimate over five or more samples in which the weighted
\* average is strictly the least of the three and the percentile index is
\* not 0.
C9_Witness ==
    /\ last.op = "get_estimated_bandwidth"
    /\ Len(bandwidth_history) >= 5
    /\ last.ret = calculate_weighted_average_bandwidth
    /\ last.ret < calculate_harmonic_mean_bandwidth
    /\ last.ret < calculate_percentile_bandwidth(Rat(2, 10))

\* C10: a newly constructed streamer has current quality index
\* floor(ladder_length / 2), index 2 for a four-level ladder, an empty
\* buffer and empty bandwidth and segment histories.
C10_InitialState ==
    last.op = "new" =>
        /\ 2 * current_quality <= Len(quality_levels)
        /\ Len(quality_levels) <= 2 * current_quality + 1
        /\ Len(quality_levels) = 4 => current_quality = 2
        /\ buffer_state.current_level = 0
        /\ bandwidth_history = << >>
        /\ segment_history = << >>

\* C10 witness: the streamer just built with the four-level ladder.
C10_Witness ==
    /\ last.op = "new"
    /\ Len(quality_levels) = 4
    /\ current_quality = 2

IsRecord == last.op = "record_segment_download"

\* The age of a sample at the present moment.
Age(sample) == now - Timestamp(sample)

\* C11: a record_segment_download call appends one sample at the back of
\* the bandwidth history and then removes from the front, and only from the
\* front, every sample older than bandwidth_window, stopping at the first
\* sample still inside the window; after the call the history is in time
\* order, ends with the new sample and holds no sample older than the
\* window.
C11_WindowEviction ==
    [][ IsRecord' =>
            LET old == bandwidth_history
                new == bandwidth_history'
                n == Len(new)
                dropped == Len(old) + 1 - n
            IN  /\ n >= 1
                /\ dropped \in 0 .. Len(old)
                /\ Timestamp(new[n]) = now'
                /\ \A i \in 1 .. n - 1 : new[i] = old[dropped + i]
                /\ \A i \in 1 .. dropped :
                       now' - Timestamp(old[i]) > bandwidth_window
                /\ dropped < Len(old) =>
                       now' - Timestamp(old[dropped + 1]) <= bandwidth_window
                /\ \A i \in 1 .. n - 1 :
                       Timestamp(new[i]) <= Timestamp(new[i + 1])
                /\ \A i \in 1 .. n :
                       now' - Timestamp(new[i]) <= bandwidth_window
      ]_vars

\* C11 witness: a call that evicted one or more samples and kept, at the
\* front, a sample exactly bandwidth_window old.
C11_Witness ==
    /\ IsRecord
    /\ Len(bandwidth_history) < Len(segment_history)
    /\ Len(bandwidth_history) >= 2
    /\ Age(bandwidth_history[1]) = bandwidth_window
    /\ Age(bandwidth_history[Len(bandwidth_history)]) = 0

\* C12: after n record_segment_download calls the segment history holds
\* min(n, 50) records, never more than 50: each call appends one record,
\* which carries the quality index current at the call, behind the records
\* already held, after dropping the oldest of them if there were 50. (The
\* number of calls is the length of the bandwidth history, which under
\* SpecHist grows by one with every call and never shrinks.)
C12_SegmentHistoryFifo ==
    /\ [](/\ Len(segment_history) = Min(Len(bandwidth_history), 50)
          /\ Len(segment_history) <= 50)
    /\ [][ /\ Len(bandwidth_history') =
                  Len(bandwidth_history) + (IF IsRecord' THEN 1 ELSE 0)
           /\ IsRecord' =>
                  LET old == segment_history
                      new == segment_history'
                      record == new[Len(new)]
                  IN  /\ record.quality_level = current_quality
                      /\ record.duration = last'.duration
                      /\ SubSeq(new, 1, Len(new) - 1) =
                             IF Len(old) = 50 THEN Tail(old) ELSE old
         ]_vars

\* C12 witness: the 51st call has been made, the history holds 50 records,
\* the record of the first call is gone (it alone was made at the initial
\* quality) and the records carry more than one quality index.
C12_Witness ==
    /\ IsRecord
    /\ Len(bandwidth_history) = 51
    /\ Len(segment_history) = 50
    /\ \A i \in 1 .. 50 :
           segment_history[i].quality_level
               # initial_quality(quality_levels)
    /\ segment_history[1].quality_level # segment_history[50].quality_level

\* C13: a record_segment_download call whose download duration is zero or
\* below one millisecond records u32::MAX as the sample, and appends the
\* segment record and raises the buffer level (clamped to max_level) like
\* any other call.
C13_InstantDownload ==
    [][ /\ IsRecord'
        /\ as_millis(segment_history'[Len(segment_history')].download_time)
               = 0
        => LET record == segment_history'[Len(segment_history')]
           IN  /\ bandwidth_history'[Len(bandwidth_history')]
                      = << now', U32_MAX >>
               /\ Len(segment_history') = Len(segment_history) + 1
               /\ SubSeq(segment_history', 1, Len(segment_history))
                      = segment_history
               /\ record.quality_level = current_quality
               /\ record.duration = last'.duration
               /\ buffer_state'.current_level =
                      Min(buffer_state.current_level + record.duration,
                          buffer_state.max_level)
      ]_vars

\* C13 witness: a download of 999 microseconds recorded after one of no
\* duration at all; both samples are u32::MAX and the buffer has grown.
C13_Witness ==
    /\ IsRecord
    /\ Len(segment_history) >= 2
    /\ Len(bandwidth_history) >= 2
    /\ segment_history[Len(segment_history)].download_time = 999
    /\ segment_history[Len(segment_history) - 1].download_time = 0
    /\ Bandwidth(bandwidth_history[Len(bandwidth_history)]) = U32_MAX
    /\ Bandwidth(bandwidth_history[Len(bandwidth_history) - 1]) = U32_MAX
    /\ buffer_state.current_level = last.old_level + last.duration

\* C14: the current quality index changes only in get_next_quality;
\* record_segment_download and update_buffer_consumption leave it as it is,
\* update_buffer_consumption changes nothing but the buffer's
\* current_level, and get_next_quality changes nothing but the current
\* quality index.
C14_QualityFrame ==
    [][ /\ current_quality' # current_quality =>
               last'.op = "get_next_quality"
        /\ last'.op = "record_segment_download" =>
               current_quality' = current_quality
        /\ last'.op = "update_buffer_consumption" =>
               /\ UNCHANGED << quality_levels, current_quality,
                               bandwidth_history, segment_history >>
               /\ buffer_state' =
                      [buffer_state EXCEPT
                           !.current_level = buffer_state'.current_level]
        /\ last'.op = "get_next_quality" =>
               UNCHANGED << quality_levels, bandwidth_history, buffer_state,
                            segment_history >>
      ]_vars

\* C14 witness: a get_next_quality call that changed the quality index
\* while the buffer was not empty and the bandwidth history held a sample
\* that had left the window, and which is still there.
C14_Witness ==
    /\ IsNextQuality
    /\ last.ret # last.old_quality
    /\ current_quality = last.ret
    /\ buffer_state.current_level > 0
    /\ segment_history # << >>
    /\ bandwidth_history # << >>
    /\ Age(bandwidth_history[1]) > bandwidth_window

IsQuery ==
    last.op \in { "get_current_quality", "get_buffer_state",
                  "get_estimated_bandwidth", "is_buffer_healthy",
                  "should_pause_playback" }

\* The index get_next_quality returns when it is called in this state.
NextQualityResult ==
    apply_quality_smoothing(
        find_suitable_quality(
            AsU32(RatMul(Rat(estimate_bandwidth, 1),
                         calculate_buffer_factor))))

\* C15: get_current_quality, get_buffer_state, get_estimated_bandwidth,
\* is_buffer_healthy and should_pause_playback, called in any state and any
\* number of times, leave the quality index, the buffer and both histories
\* as they are; and what get_next_quality returns is decided by these alone
\* (and the clock), so no query alters the result of a later
\* get_next_quality.
C15_QueriesPure ==
    [][ /\ IsQuery' =>
               UNCHANGED << quality_levels, current_quality,
                            bandwidth_history, buffer_state, segment_history,
                            now >>
        /\ IsNextQuality' => last'.ret = NextQualityResult
      ]_vars

\* C15 witness: the bandwidth queried while the history holds a sample that
\* has left the window; the sample is still there after the query.
C15_Witness ==
    /\ last.op = "get_estimated_bandwidth"
    /\ bandwidth_history # << >>
    /\ Age(bandwidth_history[1]) > bandwidth_window
    /\ last.ret = estimate_bandwidth

\* C16, as claimed: with at least min_bandwidth_samples samples and the
\* estimate and the buffer level unchanged between calls, at every buffer
\* level, once get_next_quality has returned the target index the next call
\* returns that same index.
C16_NoOscillation ==
    [][ /\ IsNextQuality
        /\ IsNextQuality'
        /\ Len(bandwidth_history) >= min_bandwidth_samples
        /\ last'.estimated_bandwidth = last.estimated_bandwidth
        /\ last'.old_level = last.old_level
        /\ last.ret = last.target_quality
        => last'.ret = last.ret
      ]_vars

\* C17, as claimed: the index get_next_quality returns lies between the
\* index current before the call and the target index, both inclusive, and
\* equals the current index when the target does, in panic mode too.
C17_StepTowardsTarget ==
    IsNextQuality =>
        /\ Min(last.old_quality, last.target_quality) <= last.ret
        /\ last.ret <= Max(last.old_quality, last.target_quality)
        /\ last.target_quality = last.old_quality =>
               last.ret = last.old_quality

\* The samples of the history that are no older than bandwidth_window.
InsideWindow ==
    { i \in 1 .. Len(bandwidth_history) :
          Age(bandwidth_history[i]) <= bandwidth_window }

\* C18, as claimed: when an estimate is computed every sample of the
\* bandwidth history was recorded no more than bandwidth_window before, and
\* the estimate is the fallback whenever fewer than min_bandwidth_samples
\* samples lie inside the window.
C18_EstimateInsideWindow ==
    last.op \in {"get_next_quality", "get_estimated_bandwidth"} =>
        /\ \A i \in 1 .. Len(bandwidth_history) : i \in InsideWindow
        /\ Cardinality(InsideWindow) < min_bandwidth_samples =>
               last.estimated_bandwidth = Fallback(last.old_quality)

\* The buffer levels of whole seconds from empty to max_level.
Levels == { from_secs(t) : t \in 0 .. max_level \div from_secs(1) }

\* The buffer factor, and the target index for the bandwidth estimate of
\* this state, if the buffer stood at `level`.
FactorAt(level) ==
    calculate_buffer_factor_of([buffer_state EXCEPT !.current_level = level])

TargetAt(level) ==
    find_suitable_quality(
        AsU32(RatMul(Rat(estimate_bandwidth, 1), FactorAt(level))))

\* C19: with panic 3 s < target 30 s < seek 45 s <= max 60 s the buffer
\* factor does not decrease as the buffer level rises from 0 to max_level,
\* and so, for one and the same bandwidth estimate, a fuller buffer never
\* gives a lower target index. (The level of the state is compared with
\* every level above it; the states stand at every level.)
C19_FactorMonotone ==
    /\ buffer_panic_threshold < target_level
    /\ target_level < buffer_seek_threshold
    /\ buffer_seek_threshold <= max_level
    /\ buffer_state.current_level \in Levels
    /\ \A b \in Levels :
           buffer_state.current_level <= b =>
               /\ ~RatLt(FactorAt(b), calculate_buffer_factor)
               /\ TargetAt(buffer_state.current_level) <= TargetAt(b)

\* C19 witness: a decision taken one second below target_level, where the
\* factor is lower than at target_level and the target index lower than
\* with a full buffer.
C19_Witness ==
    /\ IsNextQuality
    /\ buffer_state.current_level = target_level - from_secs(1)
    /\ last.buffer_factor = FactorAt(buffer_state.current_level)
    /\ RatLt(last.buffer_factor, FactorAt(target_level))
    /\ TargetAt(buffer_state.current_level) < TargetAt(max_level)

====
